---- MODULE Spec2Model ----
(***************************************************************************)
(* Desired-state reconciliation of boycivenga-iac: the desired-state       *)
(* builder and apply executor of scripts/apply_via_unifi.py, the three-way *)
(* diff and plan reporter of scripts/plan_unifi.py, and the controller     *)
(* client of tests/integration/helpers/unifi_client.py.                    *)
(*                                                                         *)
(* A Python dict is a function whose DOMAIN is the set of keys present.    *)
(* dict.get(k) of a missing key and a JSON null are both the None of the   *)
(* key's type.  Network names are sequences of characters, so that         *)
(* str.startswith is computed and not assumed.  IPv4 addresses are the     *)
(* 32-bit integers ipaddress works on; an address/prefix-length string is  *)
(* the pair <<address, prefixlen>>.                                        *)
(***************************************************************************)
EXTENDS Integers, Sequences, FiniteSets, TLC

VARIABLES
    \* ---- the compute_diff harness (SpecDiff) ----
    in_desired,     \* compute_diff's argument desired
    in_recorded,    \* compute_diff's argument recorded
    in_actual,      \* compute_diff's argument actual
    in_ignore,      \* plan's --ignore-drift
    diff,           \* the dict compute_diff returned, NoDiff before the call
    diff_rc,        \* the plan command's exit code for that diff, NoRc before
    \* ---- the apply and plan commands against a controller (Spec) ----
    tfvars,         \* the tfvars.json document both commands load
    controller,     \* the controller's networks of the site, in its order
    next_id,        \* the identifier the controller gives its next network
    state_file,     \* the recorded-state file: [exists, networks]
    pc,             \* "idle" between commands, "apply" inside apply_networks
    fail_fast,      \* --fail-fast of the apply run in progress (or last run)
    desired_networks, \* apply_networks' argument
    network_cache,  \* apply_networks' name-keyed cache
    idx,            \* position of the loop of apply_networks in desired_networks
    created,        \* apply_networks' list created
    updated,        \* apply_networks' list updated
    failures,       \* apply_networks' list failures
    calls,          \* the controller calls of the run, in order
    outcomes,       \* per processed network: its name and whether its call returned
    apply_rc,       \* exit code of the last apply command, NoRc before any
    plan_out,       \* what the last plan command computed, NoPlan when stale
    clean,          \* the last apply saved state with no failure, nothing changed since
    follows_clean,  \* the apply run in progress (or last run) started when clean
    \* ---- the desired-state builder on one VLAN/prefix pair (SpecBuild) ----
    in_vlan,        \* build_network_config's argument vlan
    in_prefix,      \* build_network_config's argument prefix
    dhcp_range,     \* what calculate_dhcp_range made of the prefix's cidr
    built_config,   \* what build_network_config made of the pair
    \* ---- what a command is started with (SpecMain) ----
    environ,        \* the environment variables the commands read
    dry_run,        \* apply's --dry-run
    \* ---- trigger_workflow called by two callers at once (SpecTrigger) ----
    runs,           \* the workflow's runs on GitHub, newest first
    next_run_id,    \* the databaseId GitHub gives the next run
    dispatched,     \* the callers whose dispatch event has no run yet
    call_pc,        \* per caller: where its trigger_workflow call stands
    before_id,      \* per caller: trigger_workflow's before_id
    attempt,        \* per caller: the poll loop's attempt
    returned        \* per caller: the run id the call returned

diff_vars == <<in_desired, in_recorded, in_actual, in_ignore, diff, diff_rc>>

run_vars == <<pc, fail_fast, desired_networks, network_cache, idx, created,
              updated, failures, calls, outcomes>>

apply_vars == <<tfvars, controller, next_id, state_file, run_vars, apply_rc,
                plan_out, clean, follows_clean>>

build_vars == <<in_vlan, in_prefix, dhcp_range, built_config>>

cli_vars == <<environ, dry_run>>

trigger_vars == <<runs, next_run_id, dispatched, call_pc, before_id, attempt,
                  returned>>

vars == <<diff_vars, apply_vars, build_vars, cli_vars, trigger_vars>>

----------------------------------------------------------------------------
(* Values *)

NoneInt == 0 - 1            \* None where the key holds an integer
NoneSubnet == <<>>          \* None where the key holds "address/prefixlen"
NoneDict == <<>>            \* None (or an empty dict) where a dict is expected
NoDiff == <<>>
NoRc == 0 - 1
NoPlan == <<>>
NoFile == [exists |-> FALSE, networks |-> <<>>]
NoRange == <<>>
NoConfig == <<>>

Addr(a, b, c, d) == ((a * 256 + b) * 256 + c) * 256 + d

NameLan == <<"l", "a", "n">>
NameGuest == <<"g", "u", "e", "s", "t">>
NameTest == <<"t", "e", "s", "t">>
NameTestA == <<"t", "e", "s", "t", "-", "a">>
TestPrefix == <<"t", "e", "s", "t", "-">>

\* Mutant of startswith: the last character of the prefix is not compared.
startswith_short(s, prefix) ==
    /\ Len(s) >= Len(prefix) - 1
    /\ SubSeq(s, 1, Len(prefix) - 1) = SubSeq(prefix, 1, Len(prefix) - 1)

\* str.startswith
startswith(s, prefix) ==
    /\ Len(s) >= Len(prefix)
    /\ SubSeq(s, 1, Len(prefix)) = prefix

\* None of the type key k holds.
NoneOf(k) ==
    IF k \in {"ip_subnet", "subnet"} THEN NoneSubnet
    ELSE IF k = "name" THEN <<>>
    ELSE IF k \in {"purpose", "source"} THEN "None"
    ELSE NoneInt

\* dict.get(k, default)
GetD(d, k, default) == IF k \in DOMAIN d THEN d[k] ELSE default

\* dict.get(k)
Get(d, k) == GetD(d, k, NoneOf(k))

\* {**a, **b}
Merge(a, b) ==
    [k \in (DOMAIN a) \cup (DOMAIN b) |-> IF k \in DOMAIN b THEN b[k] ELSE a[k]]

\* Python truth value of an integer-or-None and of a string-or-None.
TruthyInt(v) == v # NoneInt /\ v # 0
TruthySubnet(v) == v # NoneSubnet
TruthyDict(d) == DOMAIN d # {}

\* The dict {net["name"]: net for net in nets}: its keys in insertion order
\* (a repeated name keeps its first position) ...
RECURSIVE dict_keys(_)
dict_keys(nets) ==
    IF nets = <<>> THEN <<>>
    ELSE LET front == SubSeq(nets, 1, Len(nets) - 1)
             last == Get(nets[Len(nets)], "name")
         IN  IF \E i \in 1..Len(front) : Get(front[i], "name") = last
             THEN dict_keys(front)
             ELSE Append(dict_keys(front), last)

\* ... and its .get(name): the last net of that name, or None.
dict_get(nets, name) ==
    LET hits == {i \in 1..Len(nets) : Get(nets[i], "name") = name}
    IN  IF hits = {} THEN NoneDict
        ELSE nets[CHOOSE i \in hits : \A j \in hits : j <= i]

----------------------------------------------------------------------------
(* Desired-state builder: scripts/apply_via_unifi.py *)

start_offset == 6
end_offset == 254
AddressBits == 32

Min(a, b) == IF a <= b THEN a ELSE b

\* TLC's integers are 32-bit, Python's are not: the number of addresses of a
\* prefix shorter than /2 is held at 2^30.  Every address of the model is below
\* 2^30 (first octet under 64); for those, masking by the held value clears the
\* same bits as masking by the exact one, and the comparisons against
\* start_offset + 2 and end_offset come out the same.
num_addresses_of(prefixlen) ==
    IF AddressBits - prefixlen > 30 THEN 2 ^ 30 ELSE 2 ^ (AddressBits - prefixlen)

\* ipaddress.IPv4Network(cidr, strict=False) of cidr = <<address, prefixlen>>:
\* a malformed string (here: not a pair, a negative address, a prefix length
\* outside 0..32) raises; host bits are masked off.
IPv4Network(cidr) ==
    IF \/ Len(cidr) # 2
       \/ cidr[2] < 0 \/ cidr[2] > AddressBits
       \/ cidr[1] < 0
    THEN [raised |-> TRUE]
    ELSE LET size == num_addresses_of(cidr[2])
         IN  [raised |-> FALSE,
              network_address |-> cidr[1] - (cidr[1] % size),
              prefixlen |-> cidr[2],
              num_addresses |-> size]

\* Mutant of calculate_dhcp_range: the size test asks for two usable
\* addresses only.
calculate_dhcp_range_two(cidr) ==
    LET network == IPv4Network(cidr)
    IN  IF network.raised THEN [raised |-> TRUE]
        ELSE LET usable_ips == network.num_addresses - 2
             IN  IF usable_ips < 2 THEN [raised |-> TRUE]
                 ELSE [raised |-> FALSE,
                       dhcp_start |-> network.network_address + start_offset,
                       dhcp_stop |-> network.network_address
                                        + Min(end_offset, usable_ips)]

calculate_dhcp_range(cidr) ==
    LET network == IPv4Network(cidr)
    IN  IF network.raised THEN [raised |-> TRUE]
        ELSE LET usable_ips == network.num_addresses - 2
             IN  IF usable_ips < start_offset + 2 THEN [raised |-> TRUE]
                 ELSE [raised |-> FALSE,
                       dhcp_start |-> network.network_address + start_offset,
                       dhcp_stop |-> network.network_address
                                        + Min(end_offset, usable_ips)]

\* Mutant of cidr_to_gateway: the network address is returned.
cidr_to_gateway_network(cidr) ==
    LET network == IPv4Network(cidr)
    IN  IF network.raised THEN [raised |-> TRUE]
        ELSE [raised |-> FALSE,
              value |-> <<network.network_address, network.prefixlen>>]

cidr_to_gateway(cidr) ==
    LET network == IPv4Network(cidr)
    IN  IF network.raised THEN [raised |-> TRUE]
        ELSE [raised |-> FALSE,
              value |-> <<network.network_address + 1, network.prefixlen>>]

build_network_config(vlan, prefix) ==
    LET range == calculate_dhcp_range(prefix.cidr)
        gateway == cidr_to_gateway(prefix.cidr)
    IN  IF range.raised \/ gateway.raised THEN [raised |-> TRUE]
        ELSE [raised |-> FALSE,
              config |-> [name |-> vlan.name,
                          purpose |-> "corporate",
                          vlan |-> vlan.vlan_id,
                          ip_subnet |-> gateway.value,
                          dhcpd_enabled |-> TRUE,
                          dhcpd_start |-> range.dhcp_start,
                          dhcpd_stop |-> range.dhcp_stop]]

\* Mutant of prefix_map_has: a vlan_id of 0 counts as no vlan_id.
prefix_map_has_truthy(prefixes, vlan_id) ==
    /\ vlan_id # 0
    /\ \E i \in 1..Len(prefixes) : prefixes[i].vlan_id = vlan_id

\* prefix_map = {p["vlan_id"]: p for p in prefixes}: the last prefix of a
\* vlan_id wins.
prefix_map_has(prefixes, vlan_id) ==
    \E i \in 1..Len(prefixes) : prefixes[i].vlan_id = vlan_id

prefix_map_get(prefixes, vlan_id) ==
    LET hits == {i \in 1..Len(prefixes) : prefixes[i].vlan_id = vlan_id}
    IN  prefixes[CHOOSE i \in hits : \A j \in hits : j <= i]

\* Mutant of build_desired_loop: a pair build_network_config refuses is
\* skipped.
RECURSIVE build_desired_loop_skips(_, _, _)
build_desired_loop_skips(tf, i, networks) ==
    IF i > Len(tf.vlans) THEN [raised |-> FALSE, networks |-> networks]
    ELSE LET vlan == tf.vlans[i]
         IN  IF ~prefix_map_has(tf.prefixes, vlan.vlan_id)
             THEN build_desired_loop_skips(tf, i + 1, networks)
             ELSE LET built == build_network_config(
                                   vlan, prefix_map_get(tf.prefixes, vlan.vlan_id))
                  IN  IF built.raised
                      THEN build_desired_loop_skips(tf, i + 1, networks)
                      ELSE build_desired_loop_skips(tf, i + 1,
                                                    Append(networks, built.config))

\* The loop of build_desired_state over the VLAN records from position i on,
\* networks being the list built so far.
RECURSIVE build_desired_loop(_, _, _)
build_desired_loop(tf, i, networks) ==
    IF i > Len(tf.vlans) THEN [raised |-> FALSE, networks |-> networks]
    ELSE LET vlan == tf.vlans[i]
         IN  IF ~prefix_map_has(tf.prefixes, vlan.vlan_id)
             THEN build_desired_loop(tf, i + 1, networks)
             ELSE LET built == build_network_config(
                                   vlan, prefix_map_get(tf.prefixes, vlan.vlan_id))
                  IN  IF built.raised THEN [raised |-> TRUE, networks |-> <<>>]
                      ELSE build_desired_loop(tf, i + 1,
                                              Append(networks, built.config))

build_desired_state(tf) == build_desired_loop(tf, 1, <<>>)

----------------------------------------------------------------------------
(* Reconciliation engine: scripts/plan_unifi.py *)

\* Mutant of normalize_network_for_comparison: dhcpd_enabled is read from
\* the network's enabled field when it has one.
normalize_reads_enabled(network) ==
    [name |-> Get(network, "name"),
     vlan |-> IF TruthyInt(Get(network, "vlan"))
              THEN Get(network, "vlan")
              ELSE Get(network, "vlan_id"),
     ip_subnet |-> IF TruthySubnet(Get(network, "ip_subnet"))
                   THEN Get(network, "ip_subnet")
                   ELSE Get(network, "subnet"),
     dhcpd_enabled |-> GetD(network, "enabled",
                            GetD(network, "dhcpd_enabled", TRUE)),
     dhcpd_start |-> Get(network, "dhcpd_start"),
     dhcpd_stop |-> Get(network, "dhcpd_stop")]

normalize_network_for_comparison(network) ==
    [name |-> Get(network, "name"),
     vlan |-> IF TruthyInt(Get(network, "vlan")) THEN Get(network, "vlan")
              ELSE Get(network, "vlan_id"),
     ip_subnet |-> IF TruthySubnet(Get(network, "ip_subnet"))
                   THEN Get(network, "ip_subnet")
                   ELSE Get(network, "subnet"),
     dhcpd_enabled |-> GetD(network, "dhcpd_enabled", TRUE),
     dhcpd_start |-> Get(network, "dhcpd_start"),
     dhcpd_stop |-> Get(network, "dhcpd_stop")]

\* Mutant of networks_differ: a field net1 does not set is skipped.
networks_differ_skips_unset(net1, net2) ==
    \E f \in {"vlan", "ip_subnet", "dhcpd_start", "dhcpd_stop"} :
        net1[f] # NoneOf(f) /\ net1[f] # net2[f]

fields_to_compare ==
    <<"vlan", "ip_subnet", "dhcpd_enabled", "dhcpd_start", "dhcpd_stop">>

networks_differ(net1, net2) ==
    \E i \in 1..Len(fields_to_compare) :
        net1[fields_to_compare[i]] # net2[fields_to_compare[i]]

\* The first loop of compute_diff, over desired_by_name's keys from position
\* i on; acc holds to_create, to_update and drift as built so far.
RECURSIVE diff_desired_loop(_, _, _, _, _, _)
diff_desired_loop(keys, i, desired, recorded, actual, acc) ==
    IF i > Len(keys) THEN acc
    ELSE LET name == keys[i]
             desired_net == dict_get(desired, name)
             actual_net == dict_get(actual, name)
         IN  IF ~TruthyDict(actual_net)
             THEN diff_desired_loop(keys, i + 1, desired, recorded, actual,
                      [acc EXCEPT !.to_create = Append(@, desired_net)])
             ELSE LET desired_norm == normalize_network_for_comparison(desired_net)
                      actual_norm == normalize_network_for_comparison(actual_net)
                      recorded_net == dict_get(recorded, name)
                      upd == IF networks_differ(desired_norm, actual_norm)
                             THEN Append(acc.to_update,
                                         [name |-> name,
                                          current |-> actual_norm,
                                          desired |-> desired_norm])
                             ELSE acc.to_update
                      drf == IF /\ TruthyDict(recorded_net)
                                /\ networks_differ(
                                       actual_norm,
                                       normalize_network_for_comparison(recorded_net))
                             THEN Append(acc.drift,
                                         [name |-> name,
                                          recorded |->
                                              normalize_network_for_comparison(recorded_net),
                                          actual |-> actual_norm])
                             ELSE acc.drift
                  IN  diff_desired_loop(keys, i + 1, desired, recorded, actual,
                          [acc EXCEPT !.to_update = upd, !.drift = drf])

\* Mutant of diff_delete_loop: the test "name not in desired_by_name" is lost.
RECURSIVE diff_delete_loop_any(_, _, _, _, _)
diff_delete_loop_any(keys, i, desired, actual, to_delete) ==
    IF i > Len(keys) THEN to_delete
    ELSE IF startswith(keys[i], TestPrefix)
         THEN diff_delete_loop_any(keys, i + 1, desired, actual,
                                   Append(to_delete, dict_get(actual, keys[i])))
         ELSE diff_delete_loop_any(keys, i + 1, desired, actual, to_delete)

\* The second loop of compute_diff, over actual_by_name's keys.
RECURSIVE diff_delete_loop(_, _, _, _, _)
diff_delete_loop(keys, i, desired, actual, to_delete) ==
    IF i > Len(keys) THEN to_delete
    ELSE LET name == keys[i]
         IN  IF /\ ~TruthyDict(dict_get(desired, name))
                /\ startswith(name, TestPrefix)
             THEN diff_delete_loop(keys, i + 1, desired, actual,
                                   Append(to_delete, dict_get(actual, name)))
             ELSE diff_delete_loop(keys, i + 1, desired, actual, to_delete)

\* Mutant of is_clean_of: networks to create do not count.
is_clean_ignores_create(to_create, to_update, to_delete, drift) ==
    ~(to_update # <<>> \/ to_delete # <<>>)

\* Mutant of is_clean_of: drift counts too.
is_clean_counts_drift(to_create, to_update, to_delete, drift) ==
    ~(to_create # <<>> \/ to_update # <<>> \/ to_delete # <<>> \/ drift # <<>>)

is_clean_of(to_create, to_update, to_delete, drift) ==
    ~(to_create # <<>> \/ to_update # <<>> \/ to_delete # <<>>)

compute_diff(desired, recorded, actual) ==
    LET first == diff_desired_loop(dict_keys(desired), 1, desired, recorded, actual,
                     [to_create |-> <<>>, to_update |-> <<>>, drift |-> <<>>])
        to_delete == diff_delete_loop(dict_keys(actual), 1, desired, actual, <<>>)
    IN  [to_create |-> first.to_create,
         to_update |-> first.to_update,
         to_delete |-> to_delete,
         drift |-> first.drift,
         is_clean |-> is_clean_of(first.to_create, first.to_update,
                                  to_delete, first.drift)]

\* The end of plan's main: --ignore-drift empties the drift list, and the
\* exit code is 0 for a clean diff and 2 otherwise.
plan_report(d, ignore_drift) ==
    [diff |-> IF ignore_drift THEN [d EXCEPT !.drift = <<>>] ELSE d,
     rc |-> IF d.is_clean THEN 0 ELSE 2]

----------------------------------------------------------------------------
(* State store: scripts/apply_via_unifi.py *)

\* One entry of the "networks" list save_state writes (its created_at
\* timestamp is left out: nothing reads it).
state_entry(net) ==
    [id |-> Get(net, "_id"),
     name |-> Get(net, "name"),
     vlan_id |-> Get(net, "vlan"),
     subnet |-> Get(net, "ip_subnet"),
     source |-> "netbox"]

----------------------------------------------------------------------------
(* Controller client: tests/integration/helpers/unifi_client.py.  The       *)
(* controller stores what it is sent: a POST adds the config under a fresh  *)
(* identifier, a PUT replaces the network of that identifier, and both      *)
(* answer with the stored network.                                          *)

get_networks(ctl) == ctl

\* next((net for net in networks if net.get("name") == name), None)
find_network_by_name(ctl, name) ==
    LET hits == {i \in 1..Len(ctl) : Get(ctl[i], "name") = name}
    IN  IF hits = {} THEN NoneDict
        ELSE ctl[CHOOSE i \in hits : \A j \in hits : i <= j]

\* Mutant of update_network: the PUT overwrites every network of the site.
update_network_every(ctl, network_id, config) ==
    [controller |-> [i \in 1..Len(ctl) |-> config],
     next_id |-> 0,
     result |-> config,
     calls |-> <<"update">>]

\* PUT networkconf/{network_id}; the answer's data[0] is returned.
update_network(ctl, network_id, config) ==
    [controller |-> [i \in 1..Len(ctl) |->
                        IF Get(ctl[i], "_id") = network_id THEN config ELSE ctl[i]],
     next_id |-> 0,
     result |-> config,
     calls |-> <<"update">>]

\* create_or_update_network: looks the name up on the controller (one list
\* call), updates the network found or POSTs a new one.
create_or_update_network(ctl, nid, config) ==
    LET existing == find_network_by_name(get_networks(ctl), Get(config, "name"))
    IN  IF TruthyDict(existing)
        THEN LET put == update_network(ctl, existing["_id"], Merge(existing, config))
             IN  [put EXCEPT !.next_id = nid, !.calls = <<"list">> \o @]
        ELSE LET stored == Merge(config, [_id |-> nid])
             IN  [controller |-> Append(ctl, stored),
                  next_id |-> nid + 1,
                  result |-> stored,
                  calls |-> <<"list", "create">>]

----------------------------------------------------------------------------
(* Apply executor: scripts/apply_via_unifi.py *)

\* network_cache[name] = result
cache_set(cache, name, result) ==
    LET hits == {i \in 1..Len(cache) : Get(cache[i], "name") = name}
    IN  IF hits = {} THEN Append(cache, result)
        ELSE [cache EXCEPT ![CHOOSE i \in hits : \A j \in hits : j <= i] = result]

\* Mutant of merged_config: the controller's fields take precedence.
merged_config_reversed(existing, network_config) == Merge(network_config, existing)

\* updated_config = {**existing, **network_config}
merged_config(existing, network_config) == Merge(existing, network_config)

\* Mutant of apply_one: a created network is recorded under updated as well.
apply_one_records_twice(ctl, nid, cache, made, upd, network_config) ==
    LET name == network_config["name"]
        existing == dict_get(cache, name)
    IN  IF TruthyDict(existing)
        THEN LET put == update_network(ctl, existing["_id"],
                                       merged_config(existing, network_config))
             IN  [controller |-> put.controller,
                  next_id |-> nid,
                  cache |-> cache_set(cache, name, put.result),
                  created |-> made,
                  updated |-> Append(upd, put.result),
                  calls |-> put.calls]
        ELSE LET post == create_or_update_network(ctl, nid, network_config)
             IN  [controller |-> post.controller,
                  next_id |-> post.next_id,
                  cache |-> cache_set(cache, name, post.result),
                  created |-> Append(made, post.result),
                  updated |-> Append(upd, post.result),
                  calls |-> post.calls]

\* The try block of apply_networks' loop for one network when no call raises:
\* what it sends and what it leaves in the controller, the cache and the
\* created and updated lists.
apply_one(ctl, nid, cache, made, upd, network_config) ==
    LET name == network_config["name"]
        existing == dict_get(cache, name)
    IN  IF TruthyDict(existing)
        THEN LET put == update_network(ctl, existing["_id"],
                                       merged_config(existing, network_config))
             IN  [controller |-> put.controller,
                  next_id |-> nid,
                  cache |-> cache_set(cache, name, put.result),
                  created |-> made,
                  updated |-> Append(upd, put.result),
                  calls |-> put.calls]
        ELSE LET post == create_or_update_network(ctl, nid, network_config)
             IN  [controller |-> post.controller,
                  next_id |-> post.next_id,
                  cache |-> cache_set(cache, name, post.result),
                  created |-> Append(made, post.result),
                  updated |-> upd,
                  calls |-> post.calls]

\* The calls the try block has made when its create or update raises.
calls_until_raise(cache, network_config) ==
    IF TruthyDict(dict_get(cache, network_config["name"]))
    THEN <<"update">>
    ELSE <<"list", "create">>

\* The except block's entry of failures (the error text is left out).
failure_entry(network_config) ==
    [network |-> network_config["name"],
     vlan_id |-> Get(network_config, "vlan"),
     config |-> network_config]

\* The dict apply_networks returns (unchanged is never appended to).
apply_result(made, upd, failed) ==
    [created |-> made,
     updated |-> upd,
     unchanged |-> <<>>,
     failures |-> failed,
     current_state |-> made \o upd \o <<>>]

\* Mutant of save_state: entries of the old file are kept under the new ones.
save_state_keeps_old(state_data, old) ==
    [exists |-> TRUE,
     networks |-> [i \in 1..Len(state_data.current_state) |->
                      state_entry(state_data.current_state[i])] \o old.networks]

\* The file save_state writes for the dict apply_networks returned; old is
\* the file it overwrites.
save_state(state_data, old) ==
    [exists |-> TRUE,
     networks |-> [i \in 1..Len(state_data.current_state) |->
                      state_entry(state_data.current_state[i])]]

\* Mutant of apply_exit_code: failures do not change the exit code.
apply_exit_code_zero(result) == 0

\* The apply command's exit code once state is saved.
apply_exit_code(result) == IF result.failures # <<>> THEN 1 ELSE 0

\* load_state_file and the "networks" list plan's main takes from it.
load_recorded(file) == IF file.exists THEN file.networks ELSE <<>>

\* plan's main: the controller's networks it keeps as actual.
managed_actual(all_networks, desired) ==
    SelectSeq(all_networks,
              LAMBDA net : \/ startswith(Get(net, "name"), TestPrefix)
                           \/ \E i \in 1..Len(desired) :
                                 desired[i]["name"] = Get(net, "name"))

----------------------------------------------------------------------------
(* The commands' front ends: the environment and the CI safety gate of     *)
(* scripts/apply_via_unifi.py and scripts/plan_unifi.py                   *)

\* What environ holds for a variable that is not set.
NoEnv == "(unset)"

\* os.getenv(key, default)
os_getenv(env, key, default) == IF env[key] = NoEnv THEN default ELSE env[key]

\* A str (or None) in a boolean context.
TruthyStr(s) == s \notin {NoEnv, ""}

\* str.lower() on the values a flag is given.
lower(s) ==
    CASE s = "True" -> "true"
      [] s = "TRUE" -> "true"
      [] OTHER -> s

\* apply's main: the production safety check returns 1.
apply_gate(env) ==
    /\ os_getenv(env, "GITHUB_ACTIONS", NoEnv) = "true"
    /\ lower(os_getenv(env, "TF_VAR_unifi_allow_insecure", "")) = "true"

\* plan's main: the production safety check returns 1.
plan_gate(env) ==
    /\ os_getenv(env, "GITHUB_ACTIONS", NoEnv) = "true"
    /\ LET first == os_getenv(env, "UNIFI_ALLOW_INSECURE", NoEnv)
           second == os_getenv(env, "TF_VAR_unifi_allow_insecure", NoEnv)
           allow_insecure == IF TruthyStr(first) THEN first
                             ELSE IF TruthyStr(second) THEN second
                             ELSE ""
       IN  lower(allow_insecure) = "true"

\* No variable is set.
NoEnviron ==
    [GITHUB_ACTIONS |-> NoEnv, UNIFI_ALLOW_INSECURE |-> NoEnv,
     TF_VAR_unifi_allow_insecure |-> NoEnv]

\* A command started outside CI, without --dry-run.
CliIdle ==
    /\ environ = NoEnviron
    /\ dry_run = FALSE

----------------------------------------------------------------------------
(* Workflow client: mcp-server/src/boycivenga_mcp/github_client.py *)

\* Two trigger_workflow calls for one workflow.
Callers == {"a", "b"}

\* range(10) of the poll loop, and --limit of its run list.
MaxAttempts == 10
PollLimit == 5

NoRunId == 0 - 1

\* gh run list --limit n: the n newest runs, newest first.
run_list(all_runs, n) == SubSeq(all_runs, 1, Min(n, Len(all_runs)))

\* before_runs[0]["databaseId"] if before_runs else 0
latest_run_id(all_runs) ==
    IF run_list(all_runs, 1) # <<>> THEN run_list(all_runs, 1)[1].databaseId
    ELSE 0

\* The poll loop's search: the first run of the list with an id greater than
\* before_id, NoRunId when there is none.
first_new_run(after_runs, before) ==
    LET hits == {i \in 1..Len(after_runs) : after_runs[i].databaseId > before}
    IN  IF hits = {} THEN NoRunId
        ELSE after_runs[CHOOSE i \in hits : \A j \in hits : i <= j].databaseId

\* No trigger_workflow call has begun and the workflow has no run.
TriggerIdle ==
    /\ runs = <<>>
    /\ next_run_id = 1
    /\ dispatched = {}
    /\ call_pc = [c \in Callers |-> "before"]
    /\ before_id = [c \in Callers |-> 0]
    /\ attempt = [c \in Callers |-> 0]
    /\ returned = [c \in Callers |-> NoRunId]

----------------------------------------------------------------------------
(* The inputs compute_diff is run on *)

MaxDesired == 1
MaxRecorded == 1
MaxActual == 2

SeqsUpTo(S, n) == UNION {[1..k -> S] : k \in 0..n}

Cidr(a, b, c, d, len) == <<Addr(a, b, c, d), len>>

LanTagged == build_network_config([vlan_id |-> 10, name |-> NameLan],
                                  [cidr |-> Cidr(10, 1, 0, 0, 24), vlan_id |-> 10]).config
LanVlan0 == build_network_config([vlan_id |-> 0, name |-> NameLan],
                                 [cidr |-> Cidr(10, 1, 0, 0, 24), vlan_id |-> 0]).config
TestA == build_network_config([vlan_id |-> 20, name |-> NameTestA],
                              [cidr |-> Cidr(10, 2, 0, 0, 24), vlan_id |-> 20]).config
LanBare == [name |-> NameLan, vlan |-> 10]

\* A network as the controller holds it: the config under an identifier.
Live(id, config) == Merge([_id |-> id], config)

\* A dict without key k.
Without(d, k) == [j \in (DOMAIN d) \ {k} |-> d[j]]

DesiredPool == {LanTagged, LanVlan0, TestA, LanBare}

ActualPool ==
    {Live(1, LanTagged),
     Live(1, Merge(LanBare, [dhcpd_start |-> Addr(10, 1, 0, 50)])),
     Live(1, LanVlan0),
     Without(Live(1, LanVlan0), "vlan"),
     Live(2, TestA),
     Live(3, [name |-> NameTest, purpose |-> "corporate"])}

RecordedPool ==
    {state_entry(Live(1, LanTagged)),
     state_entry(Live(2, TestA)),
     Live(1, LanTagged),
     Without(Live(1, LanVlan0), "vlan"),
     Merge(LanBare, [dhcpd_start |-> Addr(10, 1, 0, 6)])}

\* The builder harness at rest.
BuildIdle ==
    /\ in_vlan = [vlan_id |-> 10, name |-> NameLan]
    /\ in_prefix = [cidr |-> Cidr(10, 1, 0, 0, 24), vlan_id |-> 10]
    /\ dhcp_range = NoRange
    /\ built_config = NoConfig

\* The apply and plan commands at rest, on an empty document and controller.
ApplyIdle ==
    /\ tfvars = [vlans |-> <<>>, prefixes |-> <<>>]
    /\ controller = <<>>
    /\ next_id = 1
    /\ state_file = NoFile
    /\ pc = "idle"
    /\ fail_fast = FALSE
    /\ desired_networks = <<>>
    /\ network_cache = <<>>
    /\ idx = 0
    /\ created = <<>>
    /\ updated = <<>>
    /\ failures = <<>>
    /\ calls = <<>>
    /\ outcomes = <<>>
    /\ apply_rc = NoRc
    /\ plan_out = NoPlan
    /\ clean = FALSE
    /\ follows_clean = FALSE
    /\ CliIdle

DiffInit ==
    /\ in_desired \in SeqsUpTo(DesiredPool, MaxDesired)
    /\ in_recorded \in SeqsUpTo(RecordedPool, MaxRecorded)
    /\ in_actual \in SeqsUpTo(ActualPool, MaxActual)
    /\ in_ignore = FALSE
    /\ diff = NoDiff
    /\ diff_rc = NoRc
    /\ ApplyIdle
    /\ BuildIdle
    /\ TriggerIdle

\* compute_diff(desired, recorded, actual)
Diff ==
    /\ diff = NoDiff
    /\ diff' = compute_diff(in_desired, in_recorded, in_actual)
    /\ UNCHANGED <<in_desired, in_recorded, in_actual, in_ignore, diff_rc>>
    /\ UNCHANGED apply_vars
    /\ UNCHANGED build_vars
    /\ UNCHANGED cli_vars
    /\ UNCHANGED trigger_vars

\* The end of plan's main on the diff: --ignore-drift, then the exit code.
PlanReport ==
    /\ diff # NoDiff
    /\ diff_rc = NoRc
    /\ \E ignore_drift \in BOOLEAN :
          LET out == plan_report(diff, ignore_drift)
          IN  /\ in_ignore' = ignore_drift
              /\ diff' = out.diff
              /\ diff_rc' = out.rc
    /\ UNCHANGED <<in_desired, in_recorded, in_actual>>
    /\ UNCHANGED apply_vars
    /\ UNCHANGED build_vars
    /\ UNCHANGED cli_vars
    /\ UNCHANGED trigger_vars

DiffNext == Diff \/ PlanReport

SpecDiff == DiffInit /\ [][DiffNext]_vars

----------------------------------------------------------------------------
(* The builder run on one VLAN/prefix pair (SpecBuild) *)

\* Every prefix length IPv4Network accepts.
PrefixLengths == 0..AddressBits

\* Addresses the inventory may hold: network bases, one with host bits set,
\* the zero address and the base of the derivation example, 10.100.0.0.
BaseAddresses ==
    {Addr(10, 100, 0, 0), Addr(10, 1, 0, 0), Addr(10, 1, 0, 77),
     Addr(10, 3, 0, 4), Addr(0, 0, 0, 0)}

\* The cidr strings of the harness: every address at every length, a length
\* IPv4Network rejects and a string that is no address/length pair.
CidrPool ==
    {<<a, len>> : a \in BaseAddresses, len \in PrefixLengths}
        \cup {<<Addr(10, 1, 0, 0), AddressBits + 1>>, <<>>}

BuildInit ==
    /\ in_vlan \in {[vlan_id |-> 10, name |-> NameLan],
                    [vlan_id |-> 0, name |-> NameGuest]}
    /\ \E cidr \in CidrPool : in_prefix = [cidr |-> cidr, vlan_id |-> in_vlan.vlan_id]
    /\ dhcp_range = NoRange
    /\ built_config = NoConfig
    /\ in_desired = <<>>
    /\ in_recorded = <<>>
    /\ in_actual = <<>>
    /\ in_ignore = FALSE
    /\ diff = NoDiff
    /\ diff_rc = NoRc
    /\ ApplyIdle
    /\ TriggerIdle

\* calculate_dhcp_range(prefix["cidr"])
CalculateDhcpRange ==
    /\ dhcp_range = NoRange
    /\ dhcp_range' = calculate_dhcp_range(in_prefix.cidr)
    /\ UNCHANGED <<in_vlan, in_prefix, built_config>>
    /\ UNCHANGED <<diff_vars, apply_vars, cli_vars, trigger_vars>>

\* build_network_config(vlan, prefix)
BuildNetworkConfig ==
    /\ built_config = NoConfig
    /\ built_config' = build_network_config(in_vlan, in_prefix)
    /\ UNCHANGED <<in_vlan, in_prefix, dhcp_range>>
    /\ UNCHANGED <<diff_vars, apply_vars, cli_vars, trigger_vars>>

BuildNext == CalculateDhcpRange \/ BuildNetworkConfig

SpecBuild == BuildInit /\ [][BuildNext]_vars

----------------------------------------------------------------------------
(* The apply and plan commands run against one controller (Spec) *)

MaxVlans == 2

NameP2p == <<"p", "2", "p">>

\* VLAN records: lan twice (tagged 10 and with VLAN id 0), a test network, a
\* VLAN without a prefix and one whose prefix is a /30.
VlanPool ==
    {[vlan_id |-> 10, name |-> NameLan],
     [vlan_id |-> 0, name |-> NameLan],
     [vlan_id |-> 20, name |-> NameTestA],
     [vlan_id |-> 40, name |-> NameGuest],
     [vlan_id |-> 30, name |-> NameP2p]}

Prefixes ==
    <<[cidr |-> Cidr(10, 1, 0, 0, 24), vlan_id |-> 10],
      [cidr |-> Cidr(10, 1, 0, 0, 24), vlan_id |-> 0],
      [cidr |-> Cidr(10, 2, 0, 0, 24), vlan_id |-> 20],
      [cidr |-> Cidr(10, 3, 0, 0, 30), vlan_id |-> 30]>>

\* A batch of three networks, as in the partial-failure example.
BatchOfThree ==
    [vlans |-> <<[vlan_id |-> 10, name |-> NameLan],
                 [vlan_id |-> 40, name |-> NameGuest],
                 [vlan_id |-> 20, name |-> NameTestA]>>,
     prefixes |-> Append(Prefixes, [cidr |-> Cidr(10, 4, 0, 0, 24), vlan_id |-> 40])]

\* The documents: up to MaxVlans VLAN records, none of them listed twice
\* (two records may still carry one name), and the batch of three.
TfvarsDocs ==
    {[vlans |-> v, prefixes |-> Prefixes] :
        v \in {w \in SeqsUpTo(VlanPool, MaxVlans) :
                  \A i, j \in 1..Len(w) : w[i] = w[j] => i = j}}
        \cup {BatchOfThree}

\* A lan set up by hand before the tool ever ran (the controller keeps a
\* field of its own on it), and an unmanaged network whose name only
\* resembles the test prefix.
OldLan == Live(1, [name |-> NameLan, purpose |-> "corporate", vlan |-> 10,
                   ip_subnet |-> <<Addr(10, 1, 0, 1), 24>>,
                   dhcpd_enabled |-> FALSE, site_id |-> "default"])
Unmanaged == Live(3, [name |-> NameTest, purpose |-> "guest", vlan |-> 99])

ControllerInits ==
    {<<>>,
     <<OldLan>>,
     <<Live(2, TestA)>>,
     <<Unmanaged, OldLan>>,
     <<Without(Live(1, LanVlan0), "vlan"), Live(2, TestA)>>}

FirstFreeId == 4

Init ==
    /\ tfvars \in TfvarsDocs
    /\ controller \in ControllerInits
    /\ next_id = FirstFreeId
    /\ state_file = NoFile
    /\ pc = "idle"
    /\ fail_fast = FALSE
    /\ desired_networks = <<>>
    /\ network_cache = <<>>
    /\ idx = 0
    /\ created = <<>>
    /\ updated = <<>>
    /\ failures = <<>>
    /\ calls = <<>>
    /\ outcomes = <<>>
    /\ apply_rc = NoRc
    /\ plan_out = NoPlan
    /\ clean = FALSE
    /\ follows_clean = FALSE
    /\ in_desired = <<>>
    /\ in_recorded = <<>>
    /\ in_actual = <<>>
    /\ in_ignore = FALSE
    /\ diff = NoDiff
    /\ diff_rc = NoRc
    /\ BuildIdle
    /\ CliIdle
    /\ TriggerIdle

\* apply's main, past the safety check, when build_desired_state raises: the
\* exception is not caught and the interpreter exits with 1 before any
\* controller call.
ApplyInputError ==
    /\ pc = "idle"
    /\ ~apply_gate(environ)
    /\ build_desired_state(tfvars).raised
    /\ apply_rc # 1
    /\ apply_rc' = 1
    /\ UNCHANGED <<tfvars, controller, next_id, state_file, run_vars, plan_out,
                   clean, follows_clean>>
    /\ UNCHANGED diff_vars
    /\ UNCHANGED build_vars
    /\ UNCHANGED cli_vars
    /\ UNCHANGED trigger_vars

\* apply's main up to the loop of apply_networks: past the safety check and
\* without --dry-run the desired state is built, the client logs in and the
\* networks are fetched into the cache.
ApplyStart ==
    /\ pc = "idle"
    /\ ~apply_gate(environ)
    /\ ~build_desired_state(tfvars).raised
    /\ ~dry_run
    /\ \E ff \in BOOLEAN : fail_fast' = ff
    /\ desired_networks' = build_desired_state(tfvars).networks
    /\ network_cache' = get_networks(controller)
    /\ calls' = <<"login", "list">>
    /\ idx' = 1
    /\ created' = <<>>
    /\ updated' = <<>>
    /\ failures' = <<>>
    /\ outcomes' = <<>>
    /\ pc' = "apply"
    /\ apply_rc' = NoRc
    /\ plan_out' = NoPlan
    /\ follows_clean' = clean
    /\ clean' = FALSE
    /\ UNCHANGED <<tfvars, controller, next_id, state_file>>
    /\ UNCHANGED diff_vars
    /\ UNCHANGED build_vars
    /\ UNCHANGED cli_vars
    /\ UNCHANGED trigger_vars

\* Mutant of ApplyNetworkOk: the loop walks the desired list from its end.
ApplyNetworkOkBackwards ==
    /\ pc = "apply"
    /\ idx <= Len(desired_networks)
    /\ LET network_config == desired_networks[Len(desired_networks) + 1 - idx]
           step == apply_one(controller, next_id, network_cache, created, updated,
                             network_config)
       IN  /\ controller' = step.controller
           /\ next_id' = step.next_id
           /\ network_cache' = step.cache
           /\ created' = step.created
           /\ updated' = step.updated
           /\ calls' = calls \o step.calls
           /\ outcomes' = Append(outcomes, [name |-> network_config["name"],
                                            ok |-> TRUE])
    /\ idx' = idx + 1
    /\ UNCHANGED <<tfvars, state_file, pc, fail_fast, desired_networks, failures,
                   apply_rc, plan_out, clean, follows_clean>>
    /\ UNCHANGED diff_vars
    /\ UNCHANGED build_vars
    /\ UNCHANGED cli_vars
    /\ UNCHANGED trigger_vars

\* One pass of the loop whose create or update returns.
ApplyNetworkOk ==
    /\ pc = "apply"
    /\ idx <= Len(desired_networks)
    /\ LET step == apply_one(controller, next_id, network_cache, created, updated,
                             desired_networks[idx])
       IN  /\ controller' = step.controller
           /\ next_id' = step.next_id
           /\ network_cache' = step.cache
           /\ created' = step.created
           /\ updated' = step.updated
           /\ calls' = calls \o step.calls
    /\ outcomes' = Append(outcomes, [name |-> desired_networks[idx]["name"],
                                     ok |-> TRUE])
    /\ idx' = idx + 1
    /\ UNCHANGED <<tfvars, state_file, pc, fail_fast, desired_networks, failures,
                   apply_rc, plan_out, clean, follows_clean>>
    /\ UNCHANGED diff_vars
    /\ UNCHANGED build_vars
    /\ UNCHANGED cli_vars
    /\ UNCHANGED trigger_vars

\* Mutant of ApplyNetworkRaise: fail_fast is not looked at.
ApplyNetworkRaiseGoesOn ==
    /\ pc = "apply"
    /\ idx <= Len(desired_networks)
    /\ failures' = Append(failures, failure_entry(desired_networks[idx]))
    /\ outcomes' = Append(outcomes, [name |-> desired_networks[idx]["name"],
                                     ok |-> FALSE])
    /\ calls' = calls \o calls_until_raise(network_cache, desired_networks[idx])
    /\ idx' = idx + 1
    /\ UNCHANGED <<pc, apply_rc>>
    /\ UNCHANGED <<tfvars, controller, next_id, state_file, fail_fast,
                   desired_networks, network_cache, created, updated, plan_out,
                   clean, follows_clean>>
    /\ UNCHANGED diff_vars
    /\ UNCHANGED build_vars
    /\ UNCHANGED cli_vars
    /\ UNCHANGED trigger_vars

\* Mutant of ApplyNetworkRaise: the networks applied so far are saved to the
\* state file before a fail-fast abort.
ApplyNetworkRaiseSavesPartial ==
    /\ pc = "apply"
    /\ idx <= Len(desired_networks)
    /\ failures' = Append(failures, failure_entry(desired_networks[idx]))
    /\ outcomes' = Append(outcomes, [name |-> desired_networks[idx]["name"],
                                     ok |-> FALSE])
    /\ IF fail_fast
       THEN /\ pc' = "idle"
            /\ apply_rc' = 1
            /\ calls' = calls \o calls_until_raise(network_cache, desired_networks[idx])
                              \o <<"logout">>
            /\ idx' = idx
            /\ state_file' = save_state(apply_result(created, updated, failures'),
                                        state_file)
       ELSE /\ calls' = calls \o calls_until_raise(network_cache, desired_networks[idx])
            /\ idx' = idx + 1
            /\ UNCHANGED <<pc, apply_rc, state_file>>
    /\ UNCHANGED <<tfvars, controller, next_id, fail_fast,
                   desired_networks, network_cache, created, updated, plan_out,
                   clean, follows_clean>>
    /\ UNCHANGED diff_vars
    /\ UNCHANGED build_vars
    /\ UNCHANGED cli_vars
    /\ UNCHANGED trigger_vars

\* One pass of the loop whose create or update raises (the controller
\* refuses the request): the failure is recorded; with --fail-fast the
\* exception leaves apply_networks, main prints it, logs out and returns 1.
ApplyNetworkRaise ==
    /\ pc = "apply"
    /\ idx <= Len(desired_networks)
    /\ failures' = Append(failures, failure_entry(desired_networks[idx]))
    /\ outcomes' = Append(outcomes, [name |-> desired_networks[idx]["name"],
                                     ok |-> FALSE])
    /\ IF fail_fast
       THEN /\ pc' = "idle"
            /\ apply_rc' = 1
            /\ calls' = calls \o calls_until_raise(network_cache, desired_networks[idx])
                              \o <<"logout">>
            /\ idx' = idx
       ELSE /\ calls' = calls \o calls_until_raise(network_cache, desired_networks[idx])
            /\ idx' = idx + 1
            /\ UNCHANGED <<pc, apply_rc>>
    /\ UNCHANGED <<tfvars, controller, next_id, state_file, fail_fast,
                   desired_networks, network_cache, created, updated, plan_out,
                   clean, follows_clean>>
    /\ UNCHANGED diff_vars
    /\ UNCHANGED build_vars
    /\ UNCHANGED cli_vars
    /\ UNCHANGED trigger_vars

\* The loop is over: apply_networks returns, main saves the state file, logs
\* out and returns the exit code.
ApplyFinish ==
    /\ pc = "apply"
    /\ idx > Len(desired_networks)
    /\ LET result == apply_result(created, updated, failures)
       IN  /\ state_file' = save_state(result, state_file)
           /\ apply_rc' = apply_exit_code(result)
           /\ clean' = (result.failures = <<>>)
    /\ calls' = Append(calls, "logout")
    /\ pc' = "idle"
    /\ UNCHANGED <<tfvars, controller, next_id, fail_fast, desired_networks,
                   network_cache, idx, created, updated, failures, outcomes,
                   plan_out, follows_clean>>
    /\ UNCHANGED diff_vars
    /\ UNCHANGED build_vars
    /\ UNCHANGED cli_vars
    /\ UNCHANGED trigger_vars

\* The plan command, whole, past the safety check: desired from tfvars,
\* recorded from the state file, actual from the controller, the diff and
\* the exit code.
Plan ==
    /\ pc = "idle"
    /\ plan_out = NoPlan
    /\ ~plan_gate(environ)
    /\ ~build_desired_state(tfvars).raised
    /\ \E ignore_drift \in BOOLEAN :
          LET desired == build_desired_state(tfvars).networks
              recorded == load_recorded(state_file)
              actual == managed_actual(get_networks(controller), desired)
              out == plan_report(compute_diff(desired, recorded, actual),
                                 ignore_drift)
          IN  plan_out' = [diff |-> out.diff, rc |-> out.rc,
                           ignore_drift |-> ignore_drift]
    /\ UNCHANGED <<tfvars, controller, next_id, state_file, run_vars, apply_rc,
                   clean, follows_clean>>
    /\ UNCHANGED diff_vars
    /\ UNCHANGED build_vars
    /\ UNCHANGED cli_vars
    /\ UNCHANGED trigger_vars

\* Another writer: an operator moves a network's DHCP pool start to .10 on
\* the controller, between two commands.
OutOfBandEdit ==
    /\ pc = "idle"
    /\ \E i \in 1..Len(controller) :
          LET start == Get(controller[i], "dhcpd_start")
              moved == start - (start % 256) + 10
          IN  /\ start # NoneInt
              /\ start # moved
              /\ controller' = [controller EXCEPT
                                   ![i] = Merge(@, [dhcpd_start |-> moved])]
    /\ plan_out' = NoPlan
    /\ clean' = FALSE
    /\ follows_clean' = FALSE
    /\ UNCHANGED <<tfvars, next_id, state_file, run_vars, apply_rc>>
    /\ UNCHANGED diff_vars
    /\ UNCHANGED build_vars
    /\ UNCHANGED cli_vars
    /\ UNCHANGED trigger_vars

Next ==
    \/ ApplyInputError
    \/ ApplyStart
    \/ ApplyNetworkOk
    \/ ApplyNetworkRaise
    \/ ApplyFinish
    \/ Plan
    \/ OutOfBandEdit

Spec == Init /\ [][Next]_vars

----------------------------------------------------------------------------
(* The commands started under every environment, with and without          *)
(* --dry-run (SpecMain)                                                     *)

GithubActionsValues == {NoEnv, "true"}
FlagValues == {NoEnv, "", "true", "True", "false"}

EnvironPool ==
    [GITHUB_ACTIONS : GithubActionsValues, UNIFI_ALLOW_INSECURE : FlagValues,
     TF_VAR_unifi_allow_insecure : FlagValues]

\* One network, two networks, and a document build_desired_state rejects
\* (its only prefix is a /30).
MainDocs ==
    {[vlans |-> <<[vlan_id |-> 10, name |-> NameLan]>>, prefixes |-> Prefixes],
     [vlans |-> <<[vlan_id |-> 10, name |-> NameLan],
                  [vlan_id |-> 20, name |-> NameTestA]>>, prefixes |-> Prefixes],
     [vlans |-> <<[vlan_id |-> 30, name |-> NameP2p]>>, prefixes |-> Prefixes]}

\* The state file an earlier run left after it took over the lan.
PriorFile == save_state(apply_result(<<>>, <<OldLan>>, <<>>), NoFile)

MainInit ==
    /\ environ \in EnvironPool
    /\ dry_run \in BOOLEAN
    /\ tfvars \in MainDocs
    /\ controller \in {<<>>, <<OldLan>>}
    /\ next_id = FirstFreeId
    /\ state_file \in {NoFile, PriorFile}
    /\ pc = "idle"
    /\ fail_fast = FALSE
    /\ desired_networks = <<>>
    /\ network_cache = <<>>
    /\ idx = 0
    /\ created = <<>>
    /\ updated = <<>>
    /\ failures = <<>>
    /\ calls = <<>>
    /\ outcomes = <<>>
    /\ apply_rc = NoRc
    /\ plan_out = NoPlan
    /\ clean = FALSE
    /\ follows_clean = FALSE
    /\ in_desired = <<>>
    /\ in_recorded = <<>>
    /\ in_actual = <<>>
    /\ in_ignore = FALSE
    /\ diff = NoDiff
    /\ diff_rc = NoRc
    /\ BuildIdle
    /\ TriggerIdle

\* apply's main stopped by the production safety check: it returns 1 before
\* the document is loaded.
ApplyGate ==
    /\ pc = "idle"
    /\ apply_gate(environ)
    /\ apply_rc # 1
    /\ apply_rc' = 1
    /\ UNCHANGED <<tfvars, controller, next_id, state_file, run_vars, plan_out,
                   clean, follows_clean>>
    /\ UNCHANGED diff_vars
    /\ UNCHANGED build_vars
    /\ UNCHANGED cli_vars
    /\ UNCHANGED trigger_vars

\* Mutant of ApplyDryRun: --dry-run is looked at after the client has logged
\* in (the finally block then logs out).
ApplyDryRunLogsIn ==
    /\ pc = "idle"
    /\ ~apply_gate(environ)
    /\ ~build_desired_state(tfvars).raised
    /\ dry_run
    /\ apply_rc # 0
    /\ apply_rc' = 0
    /\ calls' = <<"login", "logout">>
    /\ UNCHANGED <<tfvars, controller, next_id, state_file, pc, fail_fast,
                   desired_networks, network_cache, idx, created, updated,
                   failures, outcomes, plan_out, clean, follows_clean>>
    /\ UNCHANGED diff_vars
    /\ UNCHANGED build_vars
    /\ UNCHANGED cli_vars
    /\ UNCHANGED trigger_vars

\* apply's main with --dry-run: the desired networks are built and printed,
\* and main returns 0 before a client exists.
ApplyDryRun ==
    /\ pc = "idle"
    /\ ~apply_gate(environ)
    /\ ~build_desired_state(tfvars).raised
    /\ dry_run
    /\ apply_rc # 0
    /\ apply_rc' = 0
    /\ UNCHANGED <<tfvars, controller, next_id, state_file, run_vars, plan_out,
                   clean, follows_clean>>
    /\ UNCHANGED diff_vars
    /\ UNCHANGED build_vars
    /\ UNCHANGED cli_vars
    /\ UNCHANGED trigger_vars

\* plan's main stopped by the production safety check: it returns 1.
PlanGate ==
    /\ pc = "idle"
    /\ plan_gate(environ)
    /\ plan_out = NoPlan
    /\ plan_out' = [diff |-> NoDiff, rc |-> 1, ignore_drift |-> FALSE]
    /\ UNCHANGED <<tfvars, controller, next_id, state_file, run_vars, apply_rc,
                   clean, follows_clean>>
    /\ UNCHANGED diff_vars
    /\ UNCHANGED build_vars
    /\ UNCHANGED cli_vars
    /\ UNCHANGED trigger_vars

MainNext ==
    \/ ApplyGate
    \/ ApplyInputError
    \/ ApplyDryRun
    \/ ApplyStart
    \/ ApplyNetworkOk
    \/ ApplyNetworkRaise
    \/ ApplyFinish
    \/ PlanGate
    \/ Plan

SpecMain == MainInit /\ [][MainNext]_vars

----------------------------------------------------------------------------
(* Two overlapping trigger_workflow calls for one workflow (SpecTrigger).   *)
(* GitHub creates the run of a dispatch event some time after the dispatch  *)
(* command has returned, under a databaseId greater than every earlier one; *)
(* the field by of a run (not part of GitHub's answer) tells whose dispatch *)
(* it comes from.                                                           *)

TriggerInit ==
    /\ runs \in {<<>>, <<[databaseId |-> 7, by |-> "push"]>>}
    /\ next_run_id = latest_run_id(runs) + 1
    /\ dispatched = {}
    /\ call_pc = [c \in Callers |-> "before"]
    /\ before_id = [c \in Callers |-> 0]
    /\ attempt = [c \in Callers |-> 0]
    /\ returned = [c \in Callers |-> NoRunId]
    /\ in_desired = <<>>
    /\ in_recorded = <<>>
    /\ in_actual = <<>>
    /\ in_ignore = FALSE
    /\ diff = NoDiff
    /\ diff_rc = NoRc
    /\ ApplyIdle
    /\ BuildIdle

\* The run list is read before triggering: before_id is the latest run's id.
ReadBefore(c) ==
    /\ call_pc[c] = "before"
    /\ before_id' = [before_id EXCEPT ![c] = latest_run_id(runs)]
    /\ call_pc' = [call_pc EXCEPT ![c] = "dispatch"]
    /\ UNCHANGED <<runs, next_run_id, dispatched, attempt, returned>>
    /\ UNCHANGED <<diff_vars, apply_vars, build_vars, cli_vars>>

\* gh workflow run: the dispatch event is accepted.
Dispatch(c) ==
    /\ call_pc[c] = "dispatch"
    /\ dispatched' = dispatched \cup {c}
    /\ call_pc' = [call_pc EXCEPT ![c] = "poll"]
    /\ UNCHANGED <<runs, next_run_id, before_id, attempt, returned>>
    /\ UNCHANGED <<diff_vars, apply_vars, build_vars, cli_vars>>

\* GitHub creates the run of c's dispatch event.
CreateRun(c) ==
    /\ c \in dispatched
    /\ runs' = <<[databaseId |-> next_run_id, by |-> c]>> \o runs
    /\ next_run_id' = next_run_id + 1
    /\ dispatched' = dispatched \ {c}
    /\ UNCHANGED <<call_pc, before_id, attempt, returned>>
    /\ UNCHANGED <<diff_vars, apply_vars, build_vars, cli_vars>>

\* One attempt of the poll loop that finds a run newer than before_id and
\* returns its id.
PollFinds(c) ==
    /\ call_pc[c] = "poll"
    /\ attempt[c] < MaxAttempts
    /\ first_new_run(run_list(runs, PollLimit), before_id[c]) # NoRunId
    /\ returned' = [returned EXCEPT
                       ![c] = first_new_run(run_list(runs, PollLimit), before_id[c])]
    /\ call_pc' = [call_pc EXCEPT ![c] = "done"]
    /\ UNCHANGED <<runs, next_run_id, dispatched, before_id, attempt>>
    /\ UNCHANGED <<diff_vars, apply_vars, build_vars, cli_vars>>

\* One attempt of the poll loop that finds none.
PollMisses(c) ==
    /\ call_pc[c] = "poll"
    /\ attempt[c] < MaxAttempts
    /\ first_new_run(run_list(runs, PollLimit), before_id[c]) = NoRunId
    /\ attempt' = [attempt EXCEPT ![c] = @ + 1]
    /\ UNCHANGED <<runs, next_run_id, dispatched, call_pc, before_id, returned>>
    /\ UNCHANGED <<diff_vars, apply_vars, build_vars, cli_vars>>

\* The loop is over without a run: GitHubClientError is raised.
PollGivesUp(c) ==
    /\ call_pc[c] = "poll"
    /\ attempt[c] = MaxAttempts
    /\ call_pc' = [call_pc EXCEPT ![c] = "raised"]
    /\ UNCHANGED <<runs, next_run_id, dispatched, before_id, attempt, returned>>
    /\ UNCHANGED <<diff_vars, apply_vars, build_vars, cli_vars>>

TriggerNext ==
    \E c \in Callers :
        \/ ReadBefore(c)
        \/ Dispatch(c)
        \/ CreateRun(c)
        \/ PollFinds(c)
        \/ PollMisses(c)
        \/ PollGivesUp(c)

SpecTrigger == TriggerInit /\ [][TriggerNext]_vars

----------------------------------------------------------------------------
(* Properties of compute_diff and of the plan report (SpecDiff) *)

NamesOf(list) == {Get(list[i], "name") : i \in 1..Len(list)}

\* diff is what compute_diff returned (--ignore-drift has not emptied drift).
Computed == diff # NoDiff /\ ~in_ignore

ManagedFields == {"vlan", "ip_subnet", "dhcpd_enabled", "dhcpd_start", "dhcpd_stop"}

\* The value a network dict gives a managed field: a state-file entry holds
\* vlan under vlan_id and ip_subnet under subnet, dhcpd_enabled is true
\* unless set, and VLAN id 0 is a value like any other.
FieldValue(net, f) ==
    IF f = "vlan"
    THEN (IF "vlan" \in DOMAIN net THEN net["vlan"] ELSE Get(net, "vlan_id"))
    ELSE IF f = "ip_subnet"
    THEN (IF "ip_subnet" \in DOMAIN net THEN net["ip_subnet"] ELSE Get(net, "subnet"))
    ELSE IF f = "dhcpd_enabled" THEN GetD(net, f, TRUE)
    ELSE Get(net, f)

SameManaged(a, b) == \A f \in ManagedFields : FieldValue(a, f) = FieldValue(b, f)

\* Names that are both desired and live.
DesiredLive == NamesOf(in_desired) \cap NamesOf(in_actual)

\* C2: is_clean is true if and only if to_create, to_update, to_delete and
\* drift are all empty.
C2_IsCleanIffAllEmpty ==
    Computed =>
        (diff.is_clean <=>
            /\ diff.to_create = <<>>
            /\ diff.to_update = <<>>
            /\ diff.to_delete = <<>>
            /\ diff.drift = <<>>)

\* C5: a desired network that is live and recorded, whose live state equals
\* the desired one in every managed field and differs from the recorded one
\* in some managed field, is listed in drift and not in to_update.
C5_DriftIndependence ==
    Computed =>
        \A name \in DesiredLive \cap NamesOf(in_recorded) :
            (/\ SameManaged(dict_get(in_actual, name), dict_get(in_desired, name))
             /\ ~SameManaged(dict_get(in_actual, name), dict_get(in_recorded, name)))
            => /\ name \in NamesOf(diff.drift)
               /\ name \notin NamesOf(diff.to_update)

ScenarioDesired == <<LanBare>>
ScenarioRecorded == <<Merge(LanBare, [dhcpd_start |-> Addr(10, 1, 0, 6)])>>
ScenarioActual == <<Live(1, Merge(LanBare, [dhcpd_start |-> Addr(10, 1, 0, 50)]))>>

InScenario ==
    /\ Computed
    /\ in_desired = ScenarioDesired
    /\ in_recorded = ScenarioRecorded
    /\ in_actual = ScenarioActual

C7_AbsentIsCreated ==
    diff # NoDiff =>
        \A name \in NamesOf(in_desired) \ NamesOf(in_actual) :
            /\ name \in NamesOf(diff.to_create)
            /\ name \notin NamesOf(diff.to_update)
            /\ name \notin NamesOf(diff.to_delete)
            /\ name \notin NamesOf(diff.drift)
            /\ ~diff.is_clean
            /\ diff_rc # NoRc => diff_rc = 2

C7_Witness ==
    /\ diff_rc = 2
    /\ NameLan \in NamesOf(in_desired) \ NamesOf(in_actual)
    /\ NameLan \in NamesOf(in_recorded)
    /\ NamesOf(diff.to_create) = {NameLan}

\* C8: a desired network that is live is listed in to_update if and only if
\* its desired and live states differ in a managed field.
C8_UpdateIffDiffers ==
    Computed =>
        \A name \in DesiredLive :
            name \in NamesOf(diff.to_update)
                <=> ~SameManaged(dict_get(in_desired, name), dict_get(in_actual, name))

\* C9 as stated: no name is in two of to_create, to_update, to_delete, drift.
C9_FourListsDisjoint ==
    Computed =>
        /\ NamesOf(diff.to_create) \cap NamesOf(diff.to_update) = {}
        /\ NamesOf(diff.to_create) \cap NamesOf(diff.to_delete) = {}
        /\ NamesOf(diff.to_create) \cap NamesOf(diff.drift) = {}
        /\ NamesOf(diff.to_update) \cap NamesOf(diff.to_delete) = {}
        /\ NamesOf(diff.to_update) \cap NamesOf(diff.drift) = {}
        /\ NamesOf(diff.to_delete) \cap NamesOf(diff.drift) = {}

\* C9 amended: to_create, to_update and to_delete are pairwise disjoint by
\* name and drift shares no name with to_create or to_delete; drift and
\* to_update may share a name.
C9_DisjointExceptUpdateDrift ==
    Computed =>
        /\ NamesOf(diff.to_create) \cap NamesOf(diff.to_update) = {}
        /\ NamesOf(diff.to_create) \cap NamesOf(diff.to_delete) = {}
        /\ NamesOf(diff.to_create) \cap NamesOf(diff.drift) = {}
        /\ NamesOf(diff.to_update) \cap NamesOf(diff.to_delete) = {}
        /\ NamesOf(diff.to_delete) \cap NamesOf(diff.drift) = {}

C9_Witness ==
    /\ Computed
    /\ NamesOf(diff.to_update) \cap NamesOf(diff.drift) # {}
    /\ diff.to_delete # <<>>

\* The ephemeral-test naming convention, letter by letter.
IsTestName(name) ==
    /\ Len(name) >= 5
    /\ name[1] = "t" /\ name[2] = "e" /\ name[3] = "s" /\ name[4] = "t"
    /\ name[5] = "-"

\* C10: every network in to_delete is a live network whose name is not
\* desired and starts with "test-"; a live network that is not desired and
\* has no such name is in none of the four lists.
C10_DeleteGuard ==
    Computed =>
        /\ \A i \in 1..Len(diff.to_delete) :
              /\ \E j \in 1..Len(in_actual) : in_actual[j] = diff.to_delete[i]
              /\ diff.to_delete[i].name \notin NamesOf(in_desired)
              /\ IsTestName(diff.to_delete[i].name)
        /\ \A name \in NamesOf(in_actual) \ NamesOf(in_desired) :
              ~IsTestName(name) =>
                  /\ name \notin NamesOf(diff.to_create)
                  /\ name \notin NamesOf(diff.to_update)
                  /\ name \notin NamesOf(diff.to_delete)
                  /\ name \notin NamesOf(diff.drift)

C10_Witness ==
    /\ Computed
    /\ NameTest \in NamesOf(in_actual) \ NamesOf(in_desired)
    /\ NamesOf(diff.to_delete) = {NameTestA}

----------------------------------------------------------------------------
(* Properties of the apply and plan commands (Spec) *)

\* An apply run has gone through its whole loop and saved the state file.
RunCompleted ==
    /\ pc = "idle"
    /\ calls # <<>>
    /\ Len(outcomes) = Len(desired_networks)
    /\ apply_rc \in {0, 1}
    /\ ~(fail_fast /\ failures # <<>>)

DistinctNames(nets) ==
    \A i, j \in 1..Len(nets) : nets[i]["name"] = nets[j]["name"] => i = j

Succeeded == {i \in 1..Len(outcomes) : outcomes[i].ok}
Failed == {i \in 1..Len(outcomes) : ~outcomes[i].ok}

\* The failed networks' names, in the order of the run.
FailedNames == [k \in 1..Len(SelectSeq(outcomes, LAMBDA o : ~o.ok)) |->
                   SelectSeq(outcomes, LAMBDA o : ~o.ok)[k].name]

\* C1: after an apply run without fail-fast over distinct names, the state
\* file holds exactly the networks whose create or update returned in this
\* run, one entry each, and failures holds one entry per network whose call
\* raised, naming it.
C1_StateIsWhatSucceeded ==
    (RunCompleted /\ ~fail_fast /\ DistinctNames(desired_networks)) =>
        /\ state_file.exists
        /\ NamesOf(state_file.networks) = {outcomes[i].name : i \in Succeeded}
        /\ Len(state_file.networks) = Cardinality(Succeeded)
        /\ Len(failures) = Cardinality(Failed)
        /\ [k \in 1..Len(failures) |-> failures[k].network] = FailedNames

\* The three-network batch whose second call raised, run after a clean apply
\* whose state file held all three.
C1_Witness ==
    /\ RunCompleted /\ ~fail_fast /\ follows_clean
    /\ Len(outcomes) = 3
    /\ outcomes[1].ok /\ ~outcomes[2].ok /\ outcomes[3].ok
    /\ NamesOf(state_file.networks) = {NameLan, NameTestA}
    /\ Len(failures) = 1 /\ failures[1].network = NameGuest

LiveCount(name) == Cardinality({i \in 1..Len(controller) : controller[i]["name"] = name})

\* The diff plan would compute now.
DiffNow ==
    compute_diff(desired_networks, load_recorded(state_file),
                 managed_actual(get_networks(controller), desired_networks))

\* What C3 promises of a run that starts right after an apply without
\* failures (same document, no other writer): no create is issued, exactly one
\* live network has each desired name, and the diff after the run has empty
\* to_create and to_update.
Idempotent ==
    /\ \A k \in 1..Len(calls) : calls[k] # "create"
    /\ \A i \in 1..Len(desired_networks) :
          LiveCount(desired_networks[i]["name"]) = 1
    /\ pc = "idle" =>
          /\ DiffNow.to_create = <<>>
          /\ DiffNow.to_update = <<>>

\* C3: for every desired list, an apply run that starts right after an apply
\* without failures issues no create, leaves exactly one live network of each
\* desired name, and the diff after it has empty to_create and to_update.
C3_ApplyIdempotent == follows_clean => Idempotent

\* The same over desired lists whose names are distinct: there every update
\* of the second run rewrites what the first run left, so a call that raises
\* changes nothing.
IdempotentOverDistinctNames ==
    (follows_clean /\ DistinctNames(desired_networks)) => Idempotent

\* A live network outside the desired list whose name starts with "test-".
StrayTestNetwork ==
    \E i \in 1..Len(controller) :
        /\ startswith(controller[i]["name"], TestPrefix)
        /\ \A j \in 1..Len(desired_networks) :
              desired_networks[j]["name"] # controller[i]["name"]

\* C4 as stated: the plan that follows an apply without failures (nothing
\* changed in between) reports a clean diff and exits with 0.
C4_PlanCleanAfterApply ==
    (clean /\ plan_out # NoPlan) =>
        /\ plan_out.diff.is_clean
        /\ plan_out.rc = 0

\* C4 amended: that plan reports nothing to create or update; it reports a
\* clean diff and exits with 0 unless the controller holds a network with a
\* "test-" name outside the desired list, which it lists in to_delete,
\* exiting with 2.
C4_PlanAfterApply ==
    (clean /\ plan_out # NoPlan) =>
        /\ plan_out.diff.to_create = <<>>
        /\ plan_out.diff.to_update = <<>>
        /\ plan_out.diff.is_clean <=> ~StrayTestNetwork
        /\ plan_out.rc = (IF StrayTestNetwork THEN 2 ELSE 0)
        /\ StrayTestNetwork <=> plan_out.diff.to_delete # <<>>

C4_Witness ==
    /\ clean /\ plan_out # NoPlan
    /\ plan_out.rc = 0
    /\ Len(desired_networks) = 2 /\ Len(created) = 1 /\ Len(updated) = 1

----------------------------------------------------------------------------
(* Properties of the desired-state builder (SpecBuild) *)

\* The cidr is an address with a prefix length of 0..32.
WellFormed(cidr) == Len(cidr) = 2 /\ cidr[1] >= 0 /\ cidr[2] \in 0..32

\* The subnet of a well-formed cidr holds more than n addresses.  (A /0 and
\* a /1 hold more addresses than any n written here.)
HoldsMoreThan(cidr, n) == cidr[2] <= 1 \/ n < 2 ^ (32 - cidr[2])

\* The network address of a well-formed cidr (0 for the /0 and the /1 of the
\* addresses used here, all under 64.0.0.0).
NetworkBase(cidr) ==
    IF cidr[2] <= 1 THEN 0 ELSE cidr[1] - (cidr[1] % (2 ^ (32 - cidr[2])))

\* C16: for every prefix length 0..32 calculate_dhcp_range raises or returns
\* a range with dhcp_start <= dhcp_stop of at least two addresses, inside the
\* subnet and clear of the network address, the gateway (offset 1), the
\* reserved offsets 2..5 and the broadcast address; /30, /31 and /32 raise.
C16_SubnetSizing ==
    (dhcp_range # NoRange /\ WellFormed(in_prefix.cidr)) =>
        LET cidr == in_prefix.cidr
            base == NetworkBase(cidr)
        IN  /\ cidr[2] >= 30 => dhcp_range.raised
            /\ ~dhcp_range.raised =>
                  /\ dhcp_range.dhcp_start <= dhcp_range.dhcp_stop
                  /\ dhcp_range.dhcp_stop - dhcp_range.dhcp_start + 1 >= 2
                  /\ dhcp_range.dhcp_start - base > 5
                  /\ HoldsMoreThan(cidr, dhcp_range.dhcp_stop - base + 1)

\* A /28 at 10.1.0.77: the range is 10.1.0.70 to 10.1.0.78, the broadcast
\* address being 10.1.0.79.
C16_Witness ==
    /\ dhcp_range # NoRange
    /\ in_prefix.cidr = <<Addr(10, 1, 0, 77), 28>>
    /\ ~dhcp_range.raised
    /\ dhcp_range.dhcp_start = Addr(10, 1, 0, 70)
    /\ dhcp_range.dhcp_stop = Addr(10, 1, 0, 78)

\* The cidr names its network's base address.
IsNetworkBase(cidr) == WellFormed(cidr) /\ NetworkBase(cidr) = cidr[1]

\* Offset of the last usable host of a /len, or 254 when it lies beyond.
StopOffset(len) == IF 32 - len >= 8 THEN 254 ELSE 2 ^ (32 - len) - 2

\* C17: for an accepted network-base cidr B/L the desired network has
\* ip_subnet (B+1)/L, dhcpd_start B+6 and dhcpd_stop B + min(254, offset of
\* the last usable host); 10.100.0.0/24 gives 10.100.0.1/24, 10.100.0.6 and
\* 10.100.0.254.
C17_DhcpDerivation ==
    /\ (built_config # NoConfig /\ IsNetworkBase(in_prefix.cidr)
            /\ ~built_config.raised) =>
          LET B == in_prefix.cidr[1]
              L == in_prefix.cidr[2]
          IN  /\ built_config.config.ip_subnet = <<B + 1, L>>
              /\ built_config.config.dhcpd_start = B + 6
              /\ built_config.config.dhcpd_stop = B + StopOffset(L)
    /\ (built_config # NoConfig /\ in_prefix.cidr = <<Addr(10, 100, 0, 0), 24>>) =>
          /\ ~built_config.raised
          /\ built_config.config.ip_subnet = <<Addr(10, 100, 0, 1), 24>>
          /\ built_config.config.dhcpd_start = Addr(10, 100, 0, 6)
          /\ built_config.config.dhcpd_stop = Addr(10, 100, 0, 254)

C17_Witness ==
    /\ built_config # NoConfig
    /\ in_prefix.cidr = <<Addr(10, 100, 0, 0), 24>>
    /\ ~built_config.raised
    /\ built_config.config.dhcpd_stop = Addr(10, 100, 0, 254)

----------------------------------------------------------------------------
(* Properties of the apply and plan commands, continued (Spec) *)

\* Every entry of the state file is a network the controller holds under
\* that identifier, name, vlan and ip_subnet.
RecordedIsLive ==
    \A k \in 1..Len(state_file.networks) :
        \E i \in 1..Len(controller) :
            /\ Get(controller[i], "_id") = state_file.networks[k].id
            /\ Get(controller[i], "name") = state_file.networks[k].name
            /\ Get(controller[i], "vlan") = state_file.networks[k].vlan_id
            /\ Get(controller[i], "ip_subnet") = state_file.networks[k].subnet

\* C11: right after an apply run has written the state file, every recorded
\* network exists on the controller under the same identifier, name, vlan
\* and ip_subnet.
C11_RecordedNeverLies == [][ApplyFinish => RecordedIsLive']_vars

\* The same for runs over desired lists whose names are distinct.
RecordedNeverLiesOverDistinctNames ==
    [][(ApplyFinish /\ DistinctNames(desired_networks)) => RecordedIsLive']_vars

\* C12: after an apply without failures has saved the state file, and with no
\* other writer since, the diff of the same desired list, that state file
\* and the live controller has an empty drift list.
C12_DriftOnlyOutOfBand == clean => DiffNow.drift = <<>>

\* C13: the list build_desired_state returns holds no two networks of the
\* same name.
C13_DesiredNamesUnique == calls # <<>> => DistinctNames(desired_networks)

\* A VLAN record's vlan_id has a prefix record in the document.
HasPrefix(tf, vlan) ==
    \E i \in 1..Len(tf.prefixes) : tf.prefixes[i].vlan_id = vlan.vlan_id

\* The VLAN records of the document that have a prefix, in their order.
WithPrefix(tf) == SelectSeq(tf.vlans, LAMBDA vlan : HasPrefix(tf, vlan))

\* C15: the list build_desired_state returns holds one network per VLAN
\* record that has a prefix record of its vlan_id and none for the others, in
\* the order of the VLAN records, each with the VLAN's name and id and with
\* the gateway of one of that VLAN's prefixes as ip_subnet.
C15_NetworkIffPrefix ==
    calls # <<>> =>
        /\ Len(desired_networks) = Len(WithPrefix(tfvars))
        /\ \A i \in 1..Len(desired_networks) :
              /\ desired_networks[i]["name"] = WithPrefix(tfvars)[i].name
              /\ desired_networks[i]["vlan"] = WithPrefix(tfvars)[i].vlan_id
              /\ \E j \in 1..Len(tfvars.prefixes) :
                    /\ tfvars.prefixes[j].vlan_id = WithPrefix(tfvars)[i].vlan_id
                    /\ desired_networks[i]["ip_subnet"]
                          = <<NetworkBase(tfvars.prefixes[j].cidr) + 1,
                              tfvars.prefixes[j].cidr[2]>>

\* A document whose first VLAN has no prefix and whose second has VLAN id 0.
C15_Witness ==
    /\ calls # <<>>
    /\ Len(tfvars.vlans) = 2
    /\ tfvars.vlans[1].name = NameGuest
    /\ tfvars.vlans[2].vlan_id = 0
    /\ Len(desired_networks) = 1
    /\ desired_networks[1]["vlan"] = 0

\* Some VLAN record of the document has a prefix whose cidr the builder
\* refuses (malformed, or too small for a DHCP range).
HasBadPair(tf) ==
    \E i \in 1..Len(tf.vlans) :
        /\ HasPrefix(tf, tf.vlans[i])
        /\ calculate_dhcp_range(prefix_map_get(tf.prefixes, tf.vlans[i].vlan_id).cidr).raised

\* C18: with a VLAN/prefix pair the builder refuses anywhere in the document,
\* no apply command gets a desired list, contacts the controller or writes
\* the state file, and the command exits with a code other than 0.
C18_BuildErrorAborts ==
    HasBadPair(tfvars) =>
        /\ desired_networks = <<>>
        /\ calls = <<>>
        /\ ~state_file.exists
        /\ pc = "idle"
        /\ apply_rc \in {NoRc, 1}

\* The apply command has run on a document whose first VLAN is valid and
\* whose second has a /30.
C18_Witness ==
    /\ apply_rc = 1
    /\ Len(tfvars.vlans) = 2
    /\ tfvars.vlans[1].name = NameLan
    /\ tfvars.vlans[2].name = NameP2p
    /\ calls = <<>>

\* C19: an apply run without fail-fast returns 0 if and only if failures is
\* empty and 1 when a network failed; either way the state file then holds the
\* networks that succeeded.
C19_ExitSignalling ==
    (RunCompleted /\ ~fail_fast) =>
        /\ apply_rc = 0 <=> failures = <<>>
        /\ failures # <<>> => apply_rc = 1
        /\ state_file.exists
        /\ Len(state_file.networks) = Cardinality(Succeeded)
        /\ NamesOf(state_file.networks) = {outcomes[i].name : i \in Succeeded}

\* A run that failed on one network and recorded another.
C19_Witness ==
    /\ RunCompleted /\ ~fail_fast
    /\ apply_rc = 1
    /\ Len(failures) = 1
    /\ Len(state_file.networks) = 1

\* The create and update calls among the controller calls of the run.
WriteCalls == SelectSeq(calls, LAMBDA c : c \in {"create", "update"})

\* C20: with fail_fast, once the call for the k-th desired network has raised
\* the run is over: k networks were processed, the last one failing, and no
\* create or update was issued for a later one; without fail_fast a run ends
\* only when every desired network has been processed.
C20_FailFast ==
    /\ (fail_fast /\ failures # <<>>) =>
          /\ pc = "idle"
          /\ apply_rc = 1
          /\ Len(failures) = 1
          /\ ~outcomes[Len(outcomes)].ok
          /\ Len(WriteCalls) <= Len(outcomes)
    /\ (~fail_fast /\ pc = "idle" /\ calls # <<>>) =>
          /\ Len(outcomes) = Len(desired_networks)
          /\ \A i \in 1..Len(desired_networks) :
                outcomes[i].name = desired_networks[i]["name"]

\* A fail-fast run aborted on the second of three networks, and ...
C20_Witness ==
    /\ fail_fast /\ pc = "idle"
    /\ Len(desired_networks) = 3
    /\ Len(outcomes) = 2
    /\ outcomes[1].ok /\ ~outcomes[2].ok

\* ... a run without fail-fast that went on after its second network failed.
C20_ContinuesWitness ==
    /\ ~fail_fast /\ pc = "idle"
    /\ Len(outcomes) = 3
    /\ ~outcomes[2].ok /\ outcomes[3].ok

----------------------------------------------------------------------------
(* Properties of compute_diff, continued (SpecDiff) *)

\* C14: a VLAN record and a prefix record of vlan_id 0 yield a desired
\* network with vlan 0, and a desired network with vlan 0 whose live namesake
\* has no vlan or another vlan is listed in to_update.
C14_VlanZeroLikeAnyOther ==
    /\ LET built == build_desired_state(
                        [vlans |-> <<[vlan_id |-> 0, name |-> NameLan]>>,
                         prefixes |-> <<[cidr |-> Cidr(10, 1, 0, 0, 24),
                                         vlan_id |-> 0]>>])
       IN  /\ ~built.raised
           /\ Len(built.networks) = 1
           /\ built.networks[1]["vlan"] = 0
    /\ Computed =>
          \A name \in DesiredLive :
              (/\ Get(dict_get(in_desired, name), "vlan") = 0
               /\ Get(dict_get(in_actual, name), "vlan") # 0)
              => name \in NamesOf(diff.to_update)

----------------------------------------------------------------------------
(* Properties of the apply loop (Spec) *)

\* The positions of calls that hold the call c.
CallsAt(c) == {k \in 1..Len(calls) : calls[k] = c}

\* C21: during one run of apply_networks the controller's list-networks
\* operation is invoked exactly once, up front, before the first create or
\* update; no create or update of the batch triggers a further list call.
C21_ListOnce ==
    calls # <<>> =>
        /\ Cardinality(CallsAt("list")) = 1
        /\ \A k \in CallsAt("create") \cup CallsAt("update") :
              \A l \in CallsAt("list") : l < k

\* C21, as far as it goes: the updates of a batch trigger no list call;
\* every create is preceded by one more (find_network_by_name, called by
\* create_or_update_network).
ListOncePlusOnePerCreate ==
    calls # <<>> =>
        Cardinality(CallsAt("list")) = 1 + Cardinality(CallsAt("create"))

\* C22: the create and update calls of a run follow the order of the desired
\* list, one call at a time: the i-th processed network is the i-th desired
\* one, one create or update has been issued per processed network (it has
\* returned or raised before the next is issued), and the controller hands
\* out its identifiers to the created networks in that order.
C22_ApplyOrdering ==
    calls # <<>> =>
        /\ Len(outcomes) <= Len(desired_networks)
        /\ \A i \in 1..Len(outcomes) :
              outcomes[i].name = desired_networks[i]["name"]
        /\ Len(WriteCalls) = Len(outcomes)
        /\ pc = "apply" => idx = Len(outcomes) + 1
        /\ \A j, k \in 1..Len(created) :
              j < k => created[j]["_id"] < created[k]["_id"]

\* Three networks were processed, the second call raising, the first and the
\* third creating a network each.
C22_Witness ==
    /\ Len(outcomes) = 3
    /\ outcomes[1].ok /\ ~outcomes[2].ok /\ outcomes[3].ok
    /\ Len(created) = 2

\* What C23 asks of one pass of the loop on the desired network net, given
\* the cache entry of its name (NoneDict when there is none).
CreateOrUpdateAsClaimed(net, existing) ==
    IF TruthyDict(existing)
    THEN /\ calls' = Append(calls, "update")
         /\ created' = created
         /\ Len(updated') = Len(updated) + 1
         /\ LET result == updated'[Len(updated')]
            IN  /\ DOMAIN result = DOMAIN existing \cup DOMAIN net
                /\ \A f \in DOMAIN net : result[f] = net[f]
                /\ \A f \in DOMAIN existing \ DOMAIN net : result[f] = existing[f]
                /\ result["_id"] = existing["_id"]
                /\ \E i \in 1..Len(controller) :
                      /\ controller[i]["_id"] = existing["_id"]
                      /\ controller'[i] = result
                /\ Len(controller') = Len(controller)
                /\ dict_get(network_cache', net["name"]) = result
    ELSE /\ calls'[Len(calls')] = "create"
         /\ updated' = updated
         /\ Len(created') = Len(created) + 1
         /\ LET result == created'[Len(created')]
            IN  /\ \A f \in DOMAIN net : result[f] = net[f]
                /\ controller' = Append(controller, result)
                /\ dict_get(network_cache', net["name"]) = result

\* C23: for each desired network apply issues an update, against the
\* existing network's identifier, when a network of that name is in the
\* local index and a create otherwise, records the result under updated
\* resp. created and refreshes the index with it; the update payload carries
\* the desired value of every field the desired network sets and the
\* controller-returned value of every other field.
C23_CreateOrUpdate ==
    [][ApplyNetworkOk =>
          CreateOrUpdateAsClaimed(desired_networks[idx],
                                  dict_get(network_cache,
                                           desired_networks[idx]["name"]))]_vars

\* A run updated the lan set up by hand, whose dhcpd_enabled it turned on and
\* whose site_id it kept, and created another network.
C23_Witness ==
    /\ Len(updated) >= 1
    /\ updated[1]["name"] = NameLan
    /\ "site_id" \in DOMAIN updated[1]
    /\ updated[1]["site_id"] = "default"
    /\ updated[1]["dhcpd_enabled"]
    /\ Len(created) >= 1

\* C28: when fail_fast is set and some network fails, the apply command
\* writes nothing to the state file: the file is left alone from the start
\* of the run to its abort, even when earlier networks of the batch were
\* created or updated on the controller, and the command returns 1.
C28_FailFastKeepsState ==
    [][/\ (pc' = "apply" => state_file' = state_file)
       /\ (pc = "apply" /\ pc' = "idle" /\ fail_fast /\ failures' # <<>>) =>
             /\ state_file' = state_file
             /\ apply_rc' = 1]_vars

\* A fail-fast run aborted after it had created a network, with a state file
\* of an earlier run in place.
C28_Witness ==
    /\ fail_fast /\ pc = "idle"
    /\ failures # <<>>
    /\ Len(created) >= 1
    /\ state_file.exists
    /\ apply_rc = 1

\* The names apply_networks recorded under failures.
FailureNames == {failures[i].network : i \in 1..Len(failures)}

\* How many of the three buckets hold the name.
BucketsHolding(name) ==
    (IF name \in NamesOf(created) THEN 1 ELSE 0)
        + (IF name \in NamesOf(updated) THEN 1 ELSE 0)
        + (IF name \in FailureNames THEN 1 ELSE 0)

\* C29: after apply_networks has returned (no fail-fast abort) over a
\* desired list with distinct names, every desired network is in exactly one
\* of created, updated and failures, so their lengths add up to the length
\* of the desired list; unchanged is empty and current_state is created
\* followed by updated.
C29_BucketsPartition ==
    (RunCompleted /\ DistinctNames(desired_networks)) =>
        LET result == apply_result(created, updated, failures)
        IN  /\ \A i \in 1..Len(desired_networks) :
                  BucketsHolding(desired_networks[i]["name"]) = 1
            /\ Len(result.created) + Len(result.updated) + Len(result.failures)
                  = Len(desired_networks)
            /\ result.unchanged = <<>>
            /\ result.current_state = created \o updated

\* A run over three networks ended with one created, one updated and one
\* failed.
C29_Witness ==
    /\ RunCompleted /\ DistinctNames(desired_networks)
    /\ Len(created) = 1 /\ Len(updated) = 1 /\ Len(failures) = 1

\* C30: apply_networks never issues a delete, and every controller network
\* whose name is not a desired name is left as it is by every step of a run
\* (same place, same identifier, same fields), networks of the test- prefix
\* that plan lists in to_delete included.
C30_UnmanagedLeftAlone ==
    [][(pc = "apply" \/ pc' = "apply") =>
          /\ \A k \in 1..Len(calls') : calls'[k] # "delete"
          /\ Len(controller') >= Len(controller)
          /\ \A i \in 1..Len(controller) :
                Get(controller[i], "name") \notin NamesOf(desired_networks')
                    => controller'[i] = controller[i]]_vars

\* After a run that updated a network, the controller still holds the
\* test- network nobody desires, and plan lists it in to_delete.
C30_Witness ==
    /\ RunCompleted
    /\ Len(updated) >= 1
    /\ NameTestA \notin NamesOf(desired_networks)
    /\ \E i \in 1..Len(controller) : controller[i] = Live(2, TestA)
    /\ plan_out # NoPlan
    /\ NameTestA \in NamesOf(plan_out.diff.to_delete)

----------------------------------------------------------------------------
(* Properties of compute_diff on retouched inputs (SpecDiff) *)

\* Ways of retouching a network in fields compute_diff does not manage: a
\* description and an enabled flag are set, or the purpose is dropped and
\* the identifier changed.
Retouchings == {"annotated", "repurposed"}

Retouched(net, way) ==
    IF way = "annotated"
    THEN Merge(net, [description |-> "uplink", enabled |-> FALSE])
    ELSE Merge(Without(net, "purpose"), [_id |-> 9])

RetouchedList(list, way) == [i \in 1..Len(list) |-> Retouched(list[i], way)]

NameSeq(list) == [i \in 1..Len(list) |-> Get(list[i], "name")]

\* The names compute_diff returned, list by list and in order.
DiffNames(d) ==
    [to_create |-> NameSeq(d.to_create),
     to_update |-> NameSeq(d.to_update),
     to_delete |-> NameSeq(d.to_delete),
     drift |-> NameSeq(d.drift)]

\* C26: fields other than the name and the managed fields do not influence
\* the diff: on recorded and actual lists that agree with in_recorded and
\* in_actual on every network's name and managed fields and differ only in
\* other fields, compute_diff returns the same names in to_create,
\* to_update, to_delete and drift (looked at when compute_diff has returned).
C26_CosmeticFields ==
    (Computed /\ diff_rc = NoRc) =>
        \A way \in Retouchings :
            \A recorded \in {RetouchedList(in_recorded, way)},
               actual \in {RetouchedList(in_actual, way)} :
                /\ \A i \in 1..Len(in_actual) :
                      /\ Get(actual[i], "name") = Get(in_actual[i], "name")
                      /\ SameManaged(actual[i], in_actual[i])
                /\ \A i \in 1..Len(in_recorded) :
                      /\ Get(recorded[i], "name") = Get(in_recorded[i], "name")
                      /\ SameManaged(recorded[i], in_recorded[i])
                /\ DiffNames(compute_diff(in_desired, recorded, actual))
                      = DiffNames(diff)

\* A diff with an update, a drift and a delete, over live networks that
\* the retouchings do change.
C26_Witness ==
    /\ Computed /\ diff_rc = NoRc
    /\ diff.to_update # <<>> /\ diff.drift # <<>> /\ diff.to_delete # <<>>
    /\ \A way \in Retouchings : RetouchedList(in_actual, way) # in_actual

----------------------------------------------------------------------------
(* Properties of the commands' front ends (SpecMain) *)

\* C24: with --dry-run the apply command performs no controller call of any
\* kind and does not create or modify the state file, and it returns 0 for
\* every valid desired input (once past the CI safety check, which comes
\* first and returns 1 whatever the arguments).
C24_DryRun ==
    [][dry_run =>
          /\ UNCHANGED <<controller, next_id, state_file, calls>>
          /\ calls = <<>>
          /\ (~apply_gate(environ) /\ ~build_desired_state(tfvars).raised) =>
                /\ ENABLED ApplyDryRun \/ apply_rc = 0
                /\ apply_rc' \in {NoRc, 0}]_vars

\* A dry run has returned 0 over a controller holding a network and a state
\* file of an earlier run, which a real run would have updated.
C24_Witness ==
    /\ dry_run
    /\ apply_rc = 0
    /\ calls = <<>>
    /\ controller = <<OldLan>>
    /\ state_file = PriorFile
    /\ build_desired_state(tfvars).networks # <<>>

\* The environment says CI and sets an insecure-transport flag to true.
InsecureInCi(env) ==
    /\ env["GITHUB_ACTIONS"] = "true"
    /\ \/ lower(env["UNIFI_ALLOW_INSECURE"]) = "true"
       \/ lower(env["TF_VAR_unifi_allow_insecure"]) = "true"

\* C25: when GITHUB_ACTIONS is "true" and an insecure-transport flag
\* (UNIFI_ALLOW_INSECURE or TF_VAR_unifi_allow_insecure) is set to true, the
\* apply command and the plan command both return 1 before loading input,
\* contacting the controller or writing state: no run proceeds.
C25_CiGate ==
    [][InsecureInCi(environ) =>
          /\ UNCHANGED <<controller, next_id, state_file, run_vars>>
          /\ apply_rc' \in {apply_rc, 1}
          /\ plan_out' # plan_out => plan_out'.rc = 1 /\ plan_out'.diff = NoDiff]_vars

----------------------------------------------------------------------------
(* Properties of trigger_workflow (SpecTrigger) *)

\* The run GitHub created for the caller's dispatch, when there is one.
OwnRuns(c) == {runs[i].databaseId : i \in {j \in 1..Len(runs) : runs[j].by = c}}

\* C27: when two trigger_workflow calls for one workflow overlap, each call
\* returns the id of the run created by its own dispatch, so the two calls
\* never return the same run id.
C27_OwnRun ==
    /\ \A c \in Callers : call_pc[c] = "done" => returned[c] \in OwnRuns(c)
    /\ \A c, d \in Callers :
          (c # d /\ call_pc[c] = "done" /\ call_pc[d] = "done")
              => returned[c] # returned[d]

\* What the code does ensure: a returned id is the id of a run of the
\* workflow that is newer than the latest run the call saw before it
\* dispatched.
ReturnsNewerRun ==
    \A c \in Callers :
        call_pc[c] = "done" =>
            /\ returned[c] > before_id[c]
            /\ \E i \in 1..Len(runs) : runs[i].databaseId = returned[c]

====
